---- MODULE Spec2Model ----
(***************************************************************************)
(* A model of cookie-1000/Cool_Python_Projects:                            *)
(*   - simple_budget_tracker/tracker.py  (Transaction, BudgetTracker)      *)
(*   - simple_budget_tracker/cli.py      (run_cli)                         *)
(*   - Dice_Coin_Game.py                 (coin_counts, dice_counts,        *)
(*                                        expected_report)                 *)
(*                                                                         *)
(* Python floats (Transaction.amount) are IEEE-754 binary64 values.  The   *)
(* model holds a float as a sign and a magnitude counted in halves         *)
(* (value = +/- mag / 2), the magnitude as three base-2^20 limbs, and adds *)
(* with round-to-nearest-even at 53 significant bits, which is what the    *)
(* hardware does for operands of this range.                               *)
(***************************************************************************)
EXTENDS Integers, Sequences, FiniteSets, TLC

\* ------------------------------------------------------------------ bounds

\* Longest in-memory transaction list the store actions build.
MaxLen == 3

\* Most add commands in one history of run_cli invocations.
MaxCliAdds == 3

\* Most trials of one coin_counts or dice_counts call.
MaxTrials == 4

\* Most sides of the die.
MaxSides == 3

\* Largest top_n handed to expected_report.
MaxTopN == 3

\* ------------------------------------------------------- binary64 floats

\* One limb holds 20 bits of the magnitude (little-endian, three limbs).
LimbBase == 1048576

\* binary64 keeps 53 significant bits: 2^53 = 2^13 * 2^40, limb 3 = 8192.
MantissaTop == 8192

Pow2(k) == IF k = 0 THEN 1 ELSE IF k = 1 THEN 2 ELSE IF k = 2 THEN 4
           ELSE IF k = 3 THEN 8 ELSE IF k = 4 THEN 16 ELSE IF k = 5 THEN 32
           ELSE 64

MagZero == <<0, 0, 0>>

MagAdd(a, b) ==
    LET s1 == a[1] + b[1]
        c1 == s1 \div LimbBase
        s2 == a[2] + b[2] + c1
        c2 == s2 \div LimbBase
        s3 == a[3] + b[3] + c2
    IN  <<s1 % LimbBase, s2 % LimbBase, s3>>

\* a - b for a >= b
MagSub(a, b) ==
    LET d1 == a[1] - b[1]
        b1 == IF d1 < 0 THEN 1 ELSE 0
        d2 == a[2] - b[2] - b1
        b2 == IF d2 < 0 THEN 1 ELSE 0
        d3 == a[3] - b[3] - b2
    IN  <<d1 + b1 * LimbBase, d2 + b2 * LimbBase, d3>>

MagLess(a, b) ==
    \/ a[3] < b[3]
    \/ a[3] = b[3] /\ a[2] < b[2]
    \/ a[3] = b[3] /\ a[2] = b[2] /\ a[1] < b[1]

\* Number of bits of the top limb above the 53rd significant bit.
ExcessBits(top) ==
    IF top < MantissaTop THEN 0
    ELSE IF top < 2 * MantissaTop THEN 1
    ELSE IF top < 4 * MantissaTop THEN 2
    ELSE IF top < 8 * MantissaTop THEN 3
    ELSE IF top < 16 * MantissaTop THEN 4
    ELSE 5

\* Round a magnitude to 53 significant bits, ties to even.
Round53(m) ==
    LET k    == ExcessBits(m[3])
        unit == Pow2(k)
        r    == m[1] % unit
        down == <<m[1] - r, m[2], m[3]>>
        up   == MagAdd(down, <<unit, 0, 0>>)
        odd  == (m[1] \div unit) % 2 = 1
    IN  IF k = 0 \/ r = 0 THEN m
        ELSE IF 2 * r < unit THEN down
        ELSE IF 2 * r > unit THEN up
        ELSE IF odd THEN up ELSE down

Float(neg, mag) == [neg |-> neg /\ mag # MagZero, mag |-> mag]

\* x + y on binary64 values
FAdd(x, y) ==
    IF x.neg = y.neg THEN Float(x.neg, Round53(MagAdd(x.mag, y.mag)))
    ELSE IF MagLess(x.mag, y.mag) THEN Float(y.neg, Round53(MagSub(y.mag, x.mag)))
    ELSE Float(x.neg, Round53(MagSub(x.mag, y.mag)))

FZero == Float(FALSE, MagZero)

\* The float of a small count of halves.
Halves(n) == Float(n < 0, <<IF n < 0 THEN -n ELSE n, 0, 0>>)

\* 2^53 = 9007199254740992.0, in halves 2^54
Big == Float(FALSE, <<0, 0, 2 * MantissaTop>>)

FNeg(x) == Float(~x.neg, x.mag)

\* ---------------------------------------------------------------- text

\* A str is a sequence of one-character strings.
DigitChars == <<"0", "1", "2", "3", "4", "5", "6", "7", "8", "9">>

IsDigit(c) == \E i \in 1..10 : DigitChars[i] = c

DigitVal(c) == (CHOOSE i \in 1..10 : DigitChars[i] = c) - 1

AllDigits(s) == Len(s) > 0 /\ \A i \in 1..Len(s) : IsDigit(s[i])

\* m \div d and m % d for a limb magnitude m and 1 <= d <= 10
MagDivSmall(m, d) ==
    LET q3 == m[3] \div d
        t2 == (m[3] % d) * LimbBase + m[2]
        q2 == t2 \div d
        t1 == (t2 % d) * LimbBase + m[1]
    IN  [q |-> <<t1 \div d, q2, q3>>, r |-> t1 % d]

\* m * 10 + d
MagMul10Add(m, d) ==
    LET s1 == m[1] * 10 + d
        s2 == m[2] * 10 + s1 \div LimbBase
        s3 == m[3] * 10 + s2 \div LimbBase
    IN  <<s1 % LimbBase, s2 % LimbBase, s3>>

RECURSIVE MagDigits(_)
MagDigits(m) ==
    LET qr == MagDivSmall(m, 10)
    IN  IF qr.q = MagZero THEN <<DigitChars[qr.r + 1]>>
        ELSE Append(MagDigits(qr.q), DigitChars[qr.r + 1])

RECURSIVE DigitsMag(_)
DigitsMag(s) ==
    IF s = <<>> THEN MagZero
    ELSE MagMul10Add(DigitsMag(SubSeq(s, 1, Len(s) - 1)), DigitVal(s[Len(s)]))

\* float.__repr__ as json.dumps writes it, for |x| < 1e16 (from 1e16 on Python
\* writes an exponent): the integer part, a point, and the fraction digit.
float_repr(x) ==
    LET qr == MagDivSmall(x.mag, 2)
    IN  (IF x.neg THEN <<"-">> ELSE <<>>) \o MagDigits(qr.q)
        \o <<".", IF qr.r = 1 THEN "5" ELSE "0">>

IndexOf(s, c) == IF \E i \in 1..Len(s) : s[i] = c
                 THEN CHOOSE i \in 1..Len(s) : s[i] = c /\ \A j \in 1..(i - 1) : s[j] # c
                 ELSE 0

\* The halves a fraction-digit string stands for: 0, 1, or -1 when it is not
\* a digit string; fractions other than .0 and .5 are outside the model's floats.
FracHalves(f) ==
    IF ~AllDigits(f) THEN -1
    ELSE IF \A i \in 1..Len(f) : f[i] = "0" THEN 0
    ELSE IF f[1] = "5" /\ \A i \in 2..Len(f) : f[i] = "0" THEN 1
    ELSE -1

\* float(text) for decimal text: an optional sign, digits, and an optional
\* point and fraction, correctly rounded.  The result is [ok, value];
\* ok = FALSE is Python's ValueError.  The texts the model feeds it are digit
\* strings of at most 16 digits with a fraction of .0 or .5, or no number at all.
float_parse(text) ==
    LET neg  == Len(text) > 0 /\ text[1] = "-"
        body == IF neg THEN SubSeq(text, 2, Len(text)) ELSE text
        dot  == IndexOf(body, ".")
        ip   == IF dot = 0 THEN body ELSE SubSeq(body, 1, dot - 1)
        fp   == IF dot = 0 THEN <<"0">> ELSE SubSeq(body, dot + 1, Len(body))
        h    == FracHalves(fp)
        twice == MagAdd(DigitsMag(ip), DigitsMag(ip))
    IN  IF ~AllDigits(ip) \/ h = -1
        THEN [ok |-> FALSE, value |-> FZero]
        ELSE [ok |-> TRUE,
              value |-> Float(neg, Round53(MagAdd(twice, <<h, 0, 0>>)))]

\* json.dumps of a str: the quote and the backslash are escaped.
RECURSIVE json_escape(_)
json_escape(s) ==
    IF s = <<>> THEN <<>>
    ELSE (IF s[1] = "\"" \/ s[1] = "\\" THEN <<"\\", s[1]>> ELSE <<s[1]>>)
         \o json_escape(Tail(s))

\* json.loads of a string body: a backslash stands for the character after it.
RECURSIVE json_unescape(_)
json_unescape(s) ==
    IF s = <<>> THEN <<>>
    ELSE IF s[1] = "\\" /\ Len(s) >= 2
         THEN <<s[2]>> \o json_unescape(SubSeq(s, 3, Len(s)))
         ELSE <<s[1]>> \o json_unescape(Tail(s))

\* ---------------------------------------------------------------- dates

\* The decimal digits of n >= 0, zero-padded to the given width.
RECURSIVE Padded(_, _)
Padded(n, width) ==
    IF width = 0 THEN <<>>
    ELSE Append(Padded(n \div 10, width - 1), DigitChars[(n % 10) + 1])

RECURSIVE SmallInt(_)
SmallInt(s) ==
    IF s = <<>> THEN 0 ELSE 10 * SmallInt(SubSeq(s, 1, Len(s) - 1)) + DigitVal(s[Len(s)])

IsLeap(y) == (y % 4 = 0 /\ y % 100 # 0) \/ y % 400 = 0

DaysInMonth(y, m) ==
    IF m = 2 THEN (IF IsLeap(y) THEN 29 ELSE 28)
    ELSE IF m \in {4, 6, 9, 11} THEN 30 ELSE 31

Date(y, m, d) == [year |-> y, month |-> m, day |-> d]

\* A slip that would drop the zero padding: 2024-1-5
isoformat_unpadded(d) ==
    LET digits(n) == IF n < 10 THEN Padded(n, 1) ELSE IF n < 100 THEN Padded(n, 2)
                     ELSE Padded(n, 4)
    IN  digits(d.year) \o <<"-">> \o digits(d.month) \o <<"-">> \o digits(d.day)

\* date.isoformat(): YYYY-MM-DD
isoformat(d) ==
    Padded(d.year, 4) \o <<"-">> \o Padded(d.month, 2) \o <<"-">> \o Padded(d.day, 2)

\* date.fromisoformat(text) on YYYY-MM-DD text: [ok, value]; ok = FALSE is
\* Python's ValueError.
fromisoformat(s) ==
    LET shaped == /\ Len(s) = 10
                  /\ s[5] = "-" /\ s[8] = "-"
                  /\ \A i \in {1, 2, 3, 4, 6, 7, 9, 10} : IsDigit(s[i])
        y == SmallInt(SubSeq(s, 1, 4))
        m == SmallInt(SubSeq(s, 6, 7))
        d == SmallInt(SubSeq(s, 9, 10))
    IN  IF shaped /\ y >= 1 /\ m \in 1..12 /\ d >= 1 /\ d <= DaysInMonth(y, m)
        THEN [ok |-> TRUE, value |-> Date(y, m, d)]
        ELSE [ok |-> FALSE, value |-> Date(1, 1, 1)]

\* ------------------------------------------------------------ Transaction

\* A Python value as json.loads yields it: a str, a float (a JSON integer is
\* taken through float() at once, which is exact in the model's range) or None.
PyStr(s) == [kind |-> "str", s |-> s, f |-> FZero]

PyFloat(f) == [kind |-> "float", s |-> <<>>, f |-> f]

PyNone == [kind |-> "none", s |-> <<>>, f |-> FZero]

\* A JSON value as it stands in the file: its kind and its source text.
JsonString(text) == [kind |-> "string", text |-> text]

JsonNumber(text) == [kind |-> "number", text |-> text]

JsonNull == [kind |-> "null", text |-> <<"n", "u", "l", "l">>]

Transaction(description, amount, category, posted_on) ==
    [description |-> description, amount |-> amount,
     category |-> category, posted_on |-> posted_on]

\* Transaction.to_dict: asdict, with the date replaced by its ISO text.
to_dict(t) ==
    [description |-> PyStr(t.description),
     amount      |-> PyFloat(t.amount),
     category    |-> PyStr(t.category),
     posted_on   |-> PyStr(isoformat(t.posted_on))]

\* Transaction.from_dict: the four arguments are evaluated in order, and the
\* first one that raises decides the exception.  [err, value]
from_dict(payload) ==
    LET keys   == DOMAIN payload
        amount == IF payload["amount"].kind = "str"
                  THEN float_parse(payload["amount"].s)
                  ELSE [ok |-> TRUE, value |-> payload["amount"].f]
        posted == fromisoformat(payload["posted_on"].s)
        none   == Transaction(<<>>, FZero, <<>>, Date(1, 1, 1))
    IN  IF "description" \notin keys THEN [err |-> "KeyError", value |-> none]
        ELSE IF "amount" \notin keys THEN [err |-> "KeyError", value |-> none]
        ELSE IF payload["amount"].kind = "none" THEN [err |-> "TypeError", value |-> none]
        ELSE IF ~amount.ok THEN [err |-> "ValueError", value |-> none]
        ELSE IF "category" \notin keys THEN [err |-> "KeyError", value |-> none]
        ELSE IF "posted_on" \notin keys THEN [err |-> "KeyError", value |-> none]
        ELSE IF payload["posted_on"].kind # "str" THEN [err |-> "TypeError", value |-> none]
        ELSE IF ~posted.ok THEN [err |-> "ValueError", value |-> none]
        ELSE [err |-> "none",
              value |-> Transaction(payload["description"].s, amount.value,
                                    payload["category"].s, posted.value)]

\* ------------------------------------------------------------ storage file

\* The storage file: absent, or text that is not JSON, or a JSON document
\* that is an array of objects (items) or some other value.
Absent == [exists |-> FALSE, valid |-> FALSE, array |-> FALSE, items |-> <<>>]

NotJson == [exists |-> TRUE, valid |-> FALSE, array |-> FALSE, items |-> <<>>]

JsonScalar == [exists |-> TRUE, valid |-> TRUE, array |-> FALSE, items |-> <<>>]

JsonArray(items) == [exists |-> TRUE, valid |-> TRUE, array |-> TRUE, items |-> items]

json_dumps_value(v) ==
    IF v.kind = "str" THEN JsonString(json_escape(v.s))
    ELSE IF v.kind = "float" THEN JsonNumber(float_repr(v.f))
    ELSE JsonNull

json_loads_value(j) ==
    IF j.kind = "string" THEN PyStr(json_unescape(j.text))
    ELSE IF j.kind = "number" THEN PyFloat(float_parse(j.text).value)
    ELSE PyNone

\* json.dumps(payload, indent=2) of a list of dicts
json_dumps(payload) ==
    JsonArray([i \in 1..Len(payload) |->
                 [k \in DOMAIN payload[i] |-> json_dumps_value(payload[i][k])]])

\* json.loads of an array of objects
json_loads(items) ==
    [i \in 1..Len(items) |->
       [k \in DOMAIN items[i] |-> json_loads_value(items[i][k])]]

\* ----------------------------------------------------------------- state

VARIABLES
    _transactions,  \* BudgetTracker._transactions: the list object's items
    storage,        \* the content of the file at BudgetTracker._storage_path
    snapshot,       \* the list a caller holds from list_transactions()
    last,           \* the last call: its name and the exception it raised
    fileRecords,    \* history: the transactions the storage file was written from
    cliAdds,        \* history: the transactions of the add commands run so far
    pc,             \* simulator: "idle", "coin", "dice" (in the trial loop), "done"
    counts,         \* simulator: the count table, (key, count) in insertion order
    remaining,      \* simulator: iterations left of `for _ in range(trials)`
    trials,         \* simulator: the trials argument of the running call
    report          \* the entries the last expected_report call emitted

vars == <<_transactions, storage, snapshot, last, fileRecords, cliAdds,
          pc, counts, remaining, trials, report>>

trackerVars == <<_transactions, storage, snapshot, last, fileRecords, cliAdds>>

simVars == <<pc, counts, remaining, trials, report>>

\* ---------------------------------------------------------------- inputs

Str_Pay == <<"P", "a", "y">>

Str_Tax == <<"T", "a", "x">>

Str_Tip == <<"T", "i", "p">>

\* a description holding a quote and a backslash
Str_Quoted == <<"\"", "C", "\\">>

Str_job == <<"j", "o", "b">>

Str_Job == <<"J", "o", "b">>

Str_tax == <<"t", "a", "x">>

T_Pay == Transaction(Str_Pay, Big, Str_job, Date(2024, 1, 1))

T_Tax == Transaction(Str_Tax, FNeg(Big), Str_tax, Date(2024, 2, 29))

T_Tip == Transaction(Str_Tip, Halves(2), Str_job, Date(2024, 1, 5))

T_Coffee == Transaction(Str_Quoted, Halves(-9), Str_Job, Date(2023, 12, 31))

\* The transactions callers add.
Txns == {T_Pay, T_Tax, T_Tip, T_Coffee}

\* A hand-written record of T_Tip: the amount as a numeric string.
TipObject ==
    [description |-> JsonString(Str_Tip),
     amount      |-> JsonString(<<"1">>),
     category    |-> JsonString(Str_job),
     posted_on   |-> JsonString(isoformat(Date(2024, 1, 5)))]

\* A hand-written record of T_Coffee: the amount as a JSON number.
CoffeeObject ==
    [description |-> JsonString(<<"\\", "\"", "C", "\\", "\\">>),
     amount      |-> JsonNumber(<<"-", "4", ".", "5", "0">>),
     category    |-> JsonString(Str_Job),
     posted_on   |-> JsonString(<<"2", "0", "2", "3", "-", "1", "2", "-", "3", "1">>)]

NoCategoryObject ==
    [description |-> JsonString(Str_Tip),
     amount      |-> JsonNumber(<<"1">>),
     posted_on   |-> JsonString(isoformat(Date(2024, 1, 5)))]

BadAmountObject == [TipObject EXCEPT !.amount = JsonString(<<"a", "b", "c">>)]

NullAmountObject == [TipObject EXCEPT !.amount = JsonNull]

BadDateObject ==
    [TipObject EXCEPT !.posted_on =
        JsonString(<<"2", "0", "2", "4", "-", "0", "2", "-", "3", "0">>)]

\* The storage files a tracker may find, each with the transactions it holds.
WellFormedFiles ==
    { [file |-> Absent, records |-> <<>>],
      [file |-> JsonArray(<<>>), records |-> <<>>],
      [file |-> JsonArray(<<CoffeeObject, TipObject>>), records |-> <<T_Coffee, T_Tip>>] }

MalformedFiles ==
    { [file |-> NotJson, records |-> <<>>],
      [file |-> JsonScalar, records |-> <<>>],
      [file |-> JsonArray(<<TipObject, NoCategoryObject>>), records |-> <<>>],
      [file |-> JsonArray(<<BadAmountObject>>), records |-> <<>>],
      [file |-> JsonArray(<<NullAmountObject>>), records |-> <<>>],
      [file |-> JsonArray(<<TipObject, BadDateObject>>), records |-> <<>>] }

InitialFiles == WellFormedFiles \cup MalformedFiles

NoSnapshot == [taken |-> FALSE, alias |-> FALSE, items |-> <<>>]

NoArg == Transaction(<<>>, FZero, <<>>, Date(1, 1, 1))

Call(op, err) == [op |-> op, err |-> err, arg |-> NoArg]

\* ------------------------------------------------------------ BudgetTracker

\* The payload load() builds from an existing file, or the exception raised on
\* the way: json.loads, then from_dict item by item.  [err, value]
read_payload(file) ==
    IF ~file.valid THEN [err |-> "JSONDecodeError", value |-> <<>>]
    ELSE IF ~file.array THEN [err |-> "TypeError", value |-> <<>>]
    ELSE LET payload == json_loads(file.items)
             parsed  == [i \in 1..Len(payload) |-> from_dict(payload[i])]
             bad     == {i \in 1..Len(parsed) : parsed[i].err # "none"}
             first   == CHOOSE i \in bad : \A j \in bad : i <= j
         IN  IF bad # {} THEN [err |-> parsed[first].err, value |-> <<>>]
             ELSE [err |-> "none", value |-> [i \in 1..Len(parsed) |-> parsed[i].value]]

\* The exception load() raises ("none": it returns).
load_error(file) == IF ~file.exists THEN "none" ELSE read_payload(file).err

\* self._transactions after load(), given the list held before.
load_result_keeps_absent(current, file) ==
    IF ~file.exists \/ load_error(file) # "none" THEN current
    ELSE read_payload(file).value

load_result(current, file) ==
    IF ~file.exists THEN <<>>
    ELSE IF load_error(file) # "none" THEN current
    ELSE read_payload(file).value

\* The file save() writes.
save_file(transactions) ==
    json_dumps([i \in 1..Len(transactions) |-> to_dict(transactions[i])])

\* sum(iterable): the accumulator starts at 0 and takes each item in turn.
RECURSIVE py_sum(_, _)
py_sum(acc, items) ==
    IF items = <<>> THEN acc ELSE py_sum(FAdd(acc, Head(items)), Tail(items))

\* A slip that would total the sizes of the amounts, expenses not subtracted.
balance_unsigned ==
    py_sum(FZero, [i \in 1..Len(_transactions) |->
                     Float(FALSE, _transactions[i].amount.mag)])

balance == py_sum(FZero, [i \in 1..Len(_transactions) |-> _transactions[i].amount])

\* A dict is its (key, value) items in insertion order.
DictHas(d, k) == \E i \in 1..Len(d) : d[i].key = k

DictGet(d, k, default) ==
    IF DictHas(d, k) THEN d[CHOOSE i \in 1..Len(d) : d[i].key = k].value ELSE default

DictSet(d, k, v) ==
    IF DictHas(d, k)
    THEN [i \in 1..Len(d) |-> IF d[i].key = k THEN [key |-> k, value |-> v] ELSE d[i]]
    ELSE Append(d, [key |-> k, value |-> v])

RECURSIVE summary_loop(_, _)
summary_loop(summary, items) ==
    IF items = <<>> THEN summary
    ELSE LET t == Head(items)
         IN  summary_loop(
                 DictSet(summary, t.category,
                         FAdd(DictGet(summary, t.category, FZero), t.amount)),
                 Tail(items))

summary_by_category == summary_loop(<<>>, _transactions)

\* A slip that would hand out the store's own list object.
list_transactions_alias == [taken |-> TRUE, alias |-> TRUE, items |-> <<>>]

\* list(self._transactions): a new list object with the same items.
list_transactions == [taken |-> TRUE, alias |-> FALSE, items |-> _transactions]

\* The items of the list the caller holds.
SnapshotItems == IF snapshot.alias THEN _transactions ELSE snapshot.items

Load ==
    /\ _transactions' = load_result(_transactions, storage)
    \* load() binds a new list: a caller's reference to the old one keeps the old items
    /\ snapshot' = IF snapshot.alias /\ load_error(storage) = "none"
                   THEN [snapshot EXCEPT !.alias = FALSE, !.items = _transactions]
                   ELSE snapshot
    /\ last' = Call("load", load_error(storage))
    /\ UNCHANGED <<storage, fileRecords, cliAdds, simVars>>

Save ==
    /\ storage' = save_file(_transactions)
    /\ fileRecords' = _transactions
    /\ last' = Call("save", "none")
    /\ UNCHANGED <<_transactions, snapshot, cliAdds, simVars>>

\* A slip that would put the new transaction first.
AddPrepend(transaction) ==
    /\ Len(_transactions) < MaxLen
    /\ _transactions' = <<transaction>> \o _transactions
    /\ last' = [Call("add", "none") EXCEPT !.arg = transaction]
    /\ UNCHANGED <<storage, snapshot, fileRecords, cliAdds, simVars>>

Add(transaction) ==
    /\ Len(_transactions) < MaxLen
    /\ _transactions' = Append(_transactions, transaction)
    /\ last' = [Call("add", "none") EXCEPT !.arg = transaction]
    /\ UNCHANGED <<storage, snapshot, fileRecords, cliAdds, simVars>>

ListTransactions ==
    /\ snapshot' = list_transactions
    /\ last' = Call("list_transactions", "none")
    /\ UNCHANGED <<_transactions, storage, fileRecords, cliAdds, simVars>>

SummaryByCategory ==
    /\ last' = Call("summary_by_category", "none")
    /\ UNCHANGED <<_transactions, storage, snapshot, fileRecords, cliAdds, simVars>>

Balance ==
    /\ last' = Call("balance", "none")
    /\ UNCHANGED <<_transactions, storage, snapshot, fileRecords, cliAdds, simVars>>

\* What a caller may do to the list it got from list_transactions().
Mutated(items, how) ==
    IF how = "append" THEN Append(items, T_Tip)
    ELSE IF how = "pop" THEN SubSeq(items, 1, Len(items) - 1)
    ELSE IF how = "reverse" THEN [i \in 1..Len(items) |-> items[Len(items) + 1 - i]]
    ELSE <<>>

MutateSnapshot(how) ==
    /\ snapshot.taken
    /\ how = "append" => Len(SnapshotItems) < MaxLen
    /\ how = "pop" => SnapshotItems # <<>>
    /\ IF snapshot.alias
       THEN /\ _transactions' = Mutated(_transactions, how)
            /\ snapshot' = snapshot
       ELSE /\ snapshot' = [snapshot EXCEPT !.items = Mutated(snapshot.items, how)]
            /\ _transactions' = _transactions
    /\ last' = Call("mutate", "none")
    /\ UNCHANGED <<storage, fileRecords, cliAdds, simVars>>

InitSim ==
    /\ pc = "idle"
    /\ counts = <<>>
    /\ remaining = 0
    /\ trials = 0
    /\ report = [called |-> FALSE, err |-> "none", lines |-> <<>>,
                 expected_each |-> [num |-> 0, den |-> 1], top_n |-> 0]

\* A tracker just constructed on a storage path.
Init ==
    /\ _transactions = <<>>
    /\ \E f \in InitialFiles : storage = f.file /\ fileRecords = f.records
    /\ snapshot = NoSnapshot
    /\ last = Call("init", "none")
    /\ cliAdds = <<>>
    /\ InitSim

Next ==
    \/ Load
    \/ Save
    \/ \E t \in Txns : Add(t)
    \/ SummaryByCategory
    \/ Balance

Spec == Init /\ [][Next]_vars

\* A caller that keeps the list list_transactions() returned and changes it.
SnapTxns == {T_Tip, T_Coffee}

NextSnapshot ==
    \/ Load
    \/ \E t \in SnapTxns : Add(t)
    \/ ListTransactions
    \/ \E how \in {"append", "pop", "reverse", "clear"} : MutateSnapshot(how)

SpecSnapshot == Init /\ [][NextSnapshot]_vars

\* ------------------------------------------------------------------ run_cli

\* The command lines: the add arguments as argparse hands them over.
CliDescriptions == {Str_Quoted}

CliAmounts == {<<"-", "4", ".", "5">>, <<"2", "0", "0", "0">>}

CliCategories == {Str_job, Str_Job}

CliDates == {isoformat(Date(2024, 1, 5)),
             <<"2", "0", "2", "4", "-", "0", "2", "-", "3", "0">>}

\* A slip that would save without the records loaded before.
cli_add_list_unloaded(loaded, transaction) == <<transaction>>

\* The list the local tracker of run_cli holds when `add` saves it.
cli_add_list(loaded, transaction) == Append(loaded, transaction)

\* run_cli(["add", description, amount, category, "--date", posted_on]):
\* argparse has made the amount a float; the tracker is local to the call.
RunCliAdd(description, amount, category, posted_on) ==
    LET loadErr == load_error(storage)
        loaded  == load_result(<<>>, storage)
        date    == fromisoformat(posted_on)
        t       == Transaction(description, float_parse(amount).value, category, date.value)
        err     == IF loadErr # "none" THEN loadErr
                   ELSE IF ~date.ok THEN "ValueError" ELSE "none"
    IN  /\ Len(cliAdds) < MaxCliAdds
        /\ float_parse(amount).ok
        /\ last' = Call("cli add", err)
        /\ IF err = "none"
           THEN /\ storage' = save_file(cli_add_list(loaded, t))
                /\ fileRecords' = cli_add_list(loaded, t)
                /\ cliAdds' = Append(cliAdds, t)
           ELSE UNCHANGED <<storage, fileRecords, cliAdds>>
        /\ UNCHANGED <<_transactions, snapshot, simVars>>

\* run_cli(["list"]), run_cli(["summary"]), run_cli(["balance"]): load, then print.
RunCliQuery(command) ==
    /\ last' = Call(command, load_error(storage))
    /\ UNCHANGED <<_transactions, storage, snapshot, fileRecords, cliAdds, simVars>>

\* No storage file yet, and no tracker object outside the calls.
InitCli ==
    /\ _transactions = <<>>
    /\ storage = Absent
    /\ fileRecords = <<>>
    /\ snapshot = NoSnapshot
    /\ last = Call("init", "none")
    /\ cliAdds = <<>>
    /\ InitSim

NextCli ==
    \/ \E d \in CliDescriptions, a \in CliAmounts, c \in CliCategories, p \in CliDates :
          RunCliAdd(d, a, c, p)
    \/ \E command \in {"cli list", "cli summary", "cli balance"} : RunCliQuery(command)

SpecCli == InitCli /\ [][NextCli]_vars

\* ------------------------------------------------------- Dice_Coin_Game.py

\* A count-table key: a str label (coin) or an int face (dice, label "").
StrKey(label) == [label |-> label, face |-> 0]

IntKey(face) == [label |-> "", face |-> face]

\* Python's < on two keys of one table: ints by value, the two coin labels by
\* their first code point ("H" is 72, "T" is 84).
CodePoint(label) == IF label = "Heads" THEN 72 ELSE 84

KeyLess(a, b) ==
    IF a.label = "" /\ b.label = "" THEN a.face < b.face
    ELSE CodePoint(a.label) < CodePoint(b.label)

\* counts[key] += 1
Increment(table, key) ==
    [i \in 1..Len(table) |->
        IF table[i].key = key THEN [table[i] EXCEPT !.value = @ + 1] ELSE table[i]]

\* coin_counts: counts = {"Heads": 0, "Tails": 0}
coin_table == <<[key |-> StrKey("Heads"), value |-> 0], [key |-> StrKey("Tails"), value |-> 0]>>

\* A slip that would build range(1, sides): the last face missing.
dice_table_short(sides) == [i \in 1..(sides - 1) |-> [key |-> IntKey(i), value |-> 0]]

\* dice_counts: counts = {i: 0 for i in range(1, sides + 1)}
dice_table(sides) == [i \in 1..sides |-> [key |-> IntKey(i), value |-> 0]]

NoReport == [called |-> FALSE, err |-> "none", lines |-> <<>>,
             expected_each |-> [num |-> 0, den |-> 1], top_n |-> 0]

CoinCounts(n) ==
    /\ pc \in {"idle", "done"}
    /\ pc' = "coin"
    /\ counts' = coin_table
    /\ remaining' = n
    /\ trials' = n
    /\ report' = NoReport
    /\ UNCHANGED trackerVars

DiceCounts(n, sides) ==
    /\ pc \in {"idle", "done"}
    /\ pc' = "dice"
    /\ counts' = dice_table(sides)
    /\ remaining' = n
    /\ trials' = n
    /\ report' = NoReport
    /\ UNCHANGED trackerVars

\* one iteration: counts[random.choice(("Heads", "Tails"))] += 1
CoinTrial ==
    /\ pc = "coin"
    /\ remaining > 0
    /\ \E outcome \in {"Heads", "Tails"} : counts' = Increment(counts, StrKey(outcome))
    /\ remaining' = remaining - 1
    /\ UNCHANGED <<pc, trials, report, trackerVars>>

\* one iteration: counts[random.randint(1, sides)] += 1
DiceTrial ==
    /\ pc = "dice"
    /\ remaining > 0
    /\ \E outcome \in 1..Len(counts) : counts' = Increment(counts, IntKey(outcome))
    /\ remaining' = remaining - 1
    /\ UNCHANGED <<pc, trials, report, trackerVars>>

\* return counts
ReturnCounts ==
    /\ pc \in {"coin", "dice"}
    /\ remaining = 0
    /\ pc' = "done"
    /\ UNCHANGED <<counts, remaining, trials, report, trackerVars>>

Abs(n) == IF n < 0 THEN -n ELSE n

\* (abs(v - expected_each), k, v - expected_each, v), the differences counted
\* in units of 1/den of the expected value num/den
diff_tuple(item, expected_each) ==
    LET delta == item.value * expected_each.den - expected_each.num
    IN  [abs |-> Abs(delta), key |-> item.key, delta |-> delta, actual |-> item.value]

\* Python's < on two of these tuples: the first element that differs decides.
TupleLess(x, y) ==
    \/ x.abs < y.abs
    \/ x.abs = y.abs /\ KeyLess(x.key, y.key)

\* A slip that would sort ascending (reverse=True forgotten).
RECURSIVE sort_forward(_)
sort_forward(items) ==
    IF items = <<>> THEN <<>>
    ELSE LET sorted == sort_forward(SubSeq(items, 1, Len(items) - 1))
             x      == items[Len(items)]
             before == {i \in 1..Len(sorted) : ~TupleLess(x, sorted[i])}
             n      == Cardinality(before)
         IN  SubSeq(sorted, 1, n) \o <<x>> \o SubSeq(sorted, n + 1, Len(sorted))

\* list.sort(reverse=True): descending, equal elements in their original order.
RECURSIVE sort_reverse(_)
sort_reverse(items) ==
    IF items = <<>> THEN <<>>
    ELSE LET sorted == sort_reverse(SubSeq(items, 1, Len(items) - 1))
             x      == items[Len(items)]
             after  == {i \in 1..Len(sorted) : ~TupleLess(sorted[i], x)}
             n      == Cardinality(after)
         IN  SubSeq(sorted, 1, n) \o <<x>> \o SubSeq(sorted, n + 1, Len(sorted))

\* expected_report: the lines after the two header lines, or the exception.
expected_report(table, expected_each, total, top_n) ==
    LET diffs == sort_reverse([i \in 1..Len(table) |-> diff_tuple(table[i], expected_each)])
        shown == SubSeq(diffs, 1, IF top_n < Len(diffs) THEN top_n ELSE Len(diffs))
    IN  IF shown # <<>> /\ total = 0
        THEN [called |-> TRUE, err |-> "ZeroDivisionError", lines |-> <<>>,
              expected_each |-> expected_each, top_n |-> top_n]
        ELSE [called |-> TRUE, err |-> "none",
              lines |-> [i \in 1..Len(shown) |->
                           [label |-> shown[i].key, actual |-> shown[i].actual,
                            delta |-> shown[i].delta]],
              expected_each |-> expected_each, top_n |-> top_n]

\* The expected counts a caller passes: total / outcomes as main() does, and
\* two fixed ones.
ExpectedInputs == {[num |-> trials, den |-> Len(counts)],
                   [num |-> 1, den |-> 1], [num |-> 3, den |-> 2]}

ExpectedReport(expected_each, top_n) ==
    /\ pc = "done"
    /\ report' = expected_report(counts, expected_each, trials, top_n)
    /\ UNCHANGED <<pc, counts, remaining, trials, trackerVars>>

NextSim ==
    \/ \E n \in 0..MaxTrials : CoinCounts(n)
    \/ \E n \in 0..MaxTrials, sides \in 2..MaxSides : DiceCounts(n, sides)
    \/ CoinTrial
    \/ DiceTrial
    \/ ReturnCounts
    \/ \E e \in ExpectedInputs, top_n \in 0..MaxTopN : ExpectedReport(e, top_n)

\* The simulator starts idle; the tracker's variables stay as InitCli leaves them.
SpecSim == InitCli /\ [][NextSim]_vars


\* -------------------------------------------------------------- properties

\* The float sum of a sequence of amounts, taken in sequence order.
RECURSIVE SumInOrder(_)
SumInOrder(amounts) ==
    IF amounts = <<>> THEN FZero
    ELSE FAdd(SumInOrder(SubSeq(amounts, 1, Len(amounts) - 1)), amounts[Len(amounts)])

Amounts(transactions) == [i \in 1..Len(transactions) |-> transactions[i].amount]

\* The subsequence of the transactions of one category.
RECURSIVE OfCategory(_, _)
OfCategory(transactions, category) ==
    IF transactions = <<>> THEN <<>>
    ELSE (IF Head(transactions).category = category THEN <<Head(transactions)>> ELSE <<>>)
         \o OfCategory(Tail(transactions), category)

WellFormed(file) == \A f \in MalformedFiles : file # f.file

\* C1: after save(), a fresh tracker's load() of the same file raises nothing
\* and holds a sequence equal to the saved one: same length, same order, each
\* transaction equal field by field.
C1_SaveLoadRoundTrip ==
    last.op = "save" =>
        /\ storage.exists
        /\ load_error(storage) = "none"
        /\ load_result(<<>>, storage) = _transactions

C1_Witness ==
    /\ last.op = "save"
    /\ _transactions = <<T_Coffee, T_Pay, T_Coffee>>

\* C2: load() replaces the in-memory sequence: with no file it raises nothing
\* and leaves the store empty; with a well-formed file it leaves exactly the
\* file's records in file order, whatever the store held before.
C2_LoadReplaces ==
    last.op = "load" =>
        /\ ~storage.exists => last.err = "none" /\ _transactions = <<>>
        /\ storage.exists /\ WellFormed(storage) =>
               last.err = "none" /\ _transactions = fileRecords

C2_Witness ==
    /\ last.op = "load"
    /\ storage.exists
    /\ fileRecords = <<T_Coffee, T_Tip>>
    /\ _transactions = fileRecords

\* C3: a load() that fails on a file that is not JSON, or on a record with a
\* missing field or an amount or date that does not parse, fails with the one
\* error kind MalformedStorage.
C3_MalformedStorageKind ==
    last.op = "load" /\ last.err # "none" => last.err = "MalformedStorage"

\* C4: add(transaction) appends the transaction at the end: the old sequence
\* is a prefix of the new one, one longer, and the storage file is unchanged.
C4_AddAppends ==
    [][last'.op = "add" =>
          /\ Len(_transactions') = Len(_transactions) + 1
          /\ SubSeq(_transactions', 1, Len(_transactions)) = _transactions
          /\ _transactions'[Len(_transactions')] = last'.arg
          /\ storage' = storage]_vars

C4_Witness ==
    /\ last.op = "add"
    /\ Len(_transactions) = 3
    /\ _transactions[1] # _transactions[3]
    /\ storage.exists
    /\ storage # save_file(_transactions)

\* C5: list_transactions() returns the store's transactions in insertion order
\* as a copy: changing the returned list leaves the store's sequence unchanged,
\* and a later add() or load() leaves a list already returned unchanged.
C5_SnapshotIsACopy ==
    [][/\ last'.op = "list_transactions" =>
             SnapshotItems' = _transactions /\ _transactions' = _transactions
       /\ last'.op = "mutate" => _transactions' = _transactions
       /\ last'.op \in {"add", "load"} /\ snapshot.taken =>
             SnapshotItems' = SnapshotItems]_vars

C5_Witness ==
    /\ snapshot.taken
    /\ last.op = "mutate"
    /\ Len(_transactions) = 2
    /\ SnapshotItems = <<_transactions[2], _transactions[1], T_Tip>>

SumValues(d) == SumInOrder([i \in 1..Len(d) |-> d[i].value])

\* C7: summary_by_category() has exactly the categories of the stored
\* transactions as keys, each mapped to the sum of the amounts of its
\* category, and so its values sum to balance().
C7_SummaryValuesSumToBalance ==
    /\ {summary_by_category[i].key : i \in 1..Len(summary_by_category)}
         = {_transactions[i].category : i \in 1..Len(_transactions)}
    /\ \A i \in 1..Len(summary_by_category) :
          summary_by_category[i].value =
              SumInOrder(Amounts(OfCategory(_transactions, summary_by_category[i].key)))
    /\ SumValues(summary_by_category) = balance

\* The part of C7 about the keys and the per-category sums alone.
C7_KeysAndCategorySums ==
    /\ {summary_by_category[i].key : i \in 1..Len(summary_by_category)}
         = {_transactions[i].category : i \in 1..Len(_transactions)}
    /\ \A i \in 1..Len(summary_by_category) :
          summary_by_category[i].value =
              SumInOrder(Amounts(OfCategory(_transactions, summary_by_category[i].key)))

RECURSIVE SumCounts(_)
SumCounts(table) ==
    IF table = <<>> THEN 0 ELSE Head(table).value + SumCounts(Tail(table))

Keys(table) == {table[i].key : i \in 1..Len(table)}

\* The keys a finished call must return: the two coin labels, or 1..sides.
IsCoinTable(table) ==
    Len(table) = 2 /\ Keys(table) = {StrKey("Heads"), StrKey("Tails")}

IsDiceTable(table) ==
    /\ Len(table) \in 2..MaxSides
    /\ Keys(table) = {IntKey(i) : i \in 1..Len(table)}

\* C8: for every outcome of the random source, coin_counts(trials) returns
\* exactly the keys "Heads" and "Tails" and dice_counts(trials, sides) exactly
\* the keys 1..sides, every count >= 0 and the counts summing to trials; each
\* trial increments exactly one outcome by one.
C8_TrialConservation ==
    /\ [](pc \in {"coin", "dice", "done"} =>
             /\ pc = "coin" => IsCoinTable(counts)
             /\ pc = "dice" => IsDiceTable(counts)
             /\ pc = "done" => IsCoinTable(counts) \/ IsDiceTable(counts)
             /\ \A i \in 1..Len(counts) : counts[i].value >= 0
             /\ SumCounts(counts) + remaining = trials
             /\ pc = "done" => SumCounts(counts) = trials)
    /\ [][remaining' = remaining - 1 =>
             \E i \in 1..Len(counts) :
                 /\ Len(counts') = Len(counts)
                 /\ counts'[i] = [counts[i] EXCEPT !.value = @ + 1]
                 /\ \A j \in 1..Len(counts) : j # i => counts'[j] = counts[j]]_vars

C8_Witness ==
    /\ pc = "done"
    /\ trials = 4
    /\ Len(counts) = 3
    /\ counts[1].key = IntKey(1) /\ counts[1].value = 3
    /\ counts[2].value = 0
    /\ counts[3].value = 1

\* The entries expected_report is to emit when, among outcomes of equal
\* absolute deviation, Before(i, j) says outcome i of the table goes first.
Ranked(table, expected_each, top_n, Before(_, _)) ==
    LET n     == Len(table)
        d(i)  == diff_tuple(table[i], expected_each)
        first(i, j) == \/ d(i).abs > d(j).abs
                       \/ d(i).abs = d(j).abs /\ Before(i, j)
        rank(i) == Cardinality({j \in 1..n : first(j, i)})
        k     == IF top_n < n THEN top_n ELSE n
    IN  [p \in 1..k |->
           LET i == CHOOSE i \in 1..n : rank(i) = p - 1
           IN  [label |-> table[i].key, actual |-> table[i].value, delta |-> d(i).delta]]

InsertionOrder(i, j) == i < j

LabelDescending(i, j) == KeyLess(counts[j].key, counts[i].key)

\* C9 as written, on the calls with total > 0: outcomes in order of absolute
\* deviation descending, equal deviations in the count table's insertion
\* order; exactly the first min(top_n, number of outcomes) entries, each with
\* label, count and signed deviation.
C9_TiesInInsertionOrder ==
    report.called /\ trials > 0 =>
        /\ report.err = "none"
        /\ report.lines = Ranked(counts, report.expected_each, report.top_n, InsertionOrder)

\* C9 amended: as written, but for total > 0, and with equal deviations in
\* descending order of the label (the larger face, "Tails" before "Heads").
C9_TiesByLabelDescending ==
    report.called /\ trials > 0 =>
        /\ report.err = "none"
        /\ report.lines = Ranked(counts, report.expected_each, report.top_n, LabelDescending)

C9_Witness ==
    /\ report.called
    /\ trials = 4
    /\ Len(report.lines) = 3
    /\ report.lines[1].label = IntKey(2)
    /\ report.lines[2].label = IntKey(3)
    /\ report.lines[3].label = IntKey(1)
    /\ Abs(report.lines[2].delta) = Abs(report.lines[3].delta)

\* C10: starting with no file, after every run_cli invocation the storage
\* file's records are exactly the transactions of the add commands run so far,
\* in order; list, summary and balance leave the file as it is and do not
\* create it when it is absent.
C10_FileHoldsTheAdds ==
    /\ [](/\ cliAdds = <<>> => ~storage.exists
          /\ cliAdds # <<>> =>
                /\ storage.exists
                /\ load_error(storage) = "none"
                /\ load_result(<<>>, storage) = cliAdds)
    /\ [][last'.op \in {"cli list", "cli summary", "cli balance"} =>
             storage' = storage]_vars

C10_Witness ==
    /\ last.op = "cli balance"
    /\ Len(cliAdds) = 3
    /\ cliAdds[1] = cliAdds[3]
    /\ cliAdds[1] # cliAdds[2]
    /\ storage.exists

====
